---- MODULE Spec2Model ----
(***************************************************************************)
(* The hydrometers function of the RAPT dashboard (src/unnamed/part_000):  *)
(* the handler, the token cache, the device loop of fetchHydrometers, the  *)
(* telemetry fetch with its fallback, the profile-session lookup, the      *)
(* three-tier original-gravity (OG) resolution and the ABV derivation.     *)
(*                                                                         *)
(* Every `await` of the code is a state in which the request waits (pc),   *)
(* and the action that leaves it is the arrival of the answer together     *)
(* with all the synchronous code that runs up to the next await. One       *)
(* request runs at a time, except in SpecInterleaved, where a second       *)
(* request of the same process is followed through its token steps (pc2).  *)
(*                                                                         *)
(* Numbers: gravities are gravity-points (integers); abv is held in        *)
(* hundredths of a percent (696 is 6.96), the two decimals of toFixed(2).  *)
(*                                                                         *)
(* The dashboard (src/src/main.js, from line 521): the threshold           *)
(* configuration and the cold-crash flag with their copies in              *)
(* localStorage, the settings form, the data loads in flight and the       *)
(* device cards displayDevices renders, with the temperature points of     *)
(* their charts. Its fetch is answered with what the handler of the        *)
(* function returns. Temperatures are whole degrees.                       *)
(***************************************************************************)
EXTENDS Integers, Sequences, FiniteSets, TLC

\* ---------------------------------------------------------------- bounds
MaxSamples == 2
MaxProfiles == 1
MaxTime == 2
\* data loads (loadData) in flight at once
MaxLoads == 2

\* ------------------------------------------------------ values of the code
\* null / undefined where the code holds a number
NoOG == -1
\* accessToken = null
NoToken == 0
\* tokenExpiry = null
NoExpiry == 0
\* device.activeProfileSession absent (or its id falsy)
NoSessionId == 0
\* fetchProfileSession returned null
NullSession == [id |-> NoSessionId, originalGravity |-> NoOG]
\* the handler has not answered yet
NoResponse == [statusCode |-> 0, body |-> [json |-> "none"]]
\* body: '' (lines 247-251)
EmptyBody == [json |-> "none"]
\* body: JSON.stringify({ error: message }) (lines 259 and 274)
ErrorBody(message) == [json |-> "object", error |-> message]
\* body: JSON.stringify(data), the device list as a JSON array (line 268)
ArrayBody(devices) == [json |-> "array", items |-> devices]

\* mutant: the catch of the handler answering an empty device list
EmptyListResponse(message) == [statusCode |-> 200, body |-> ArrayBody(<<>>)]

\* lines 270-275: the catch of the handler
ErrorResponse(message) == [statusCode |-> 500, body |-> ErrorBody(message)]

\* JavaScript truthiness of a number-or-null: null, undefined and 0 are falsy
Truthy(v) == v # NoOG /\ v # 0

\* ------------------------------------------------ what the outside can send
\* process.env.RAPT_MANUAL_OG: unset, "0", "1126"
ManualOGs == {NoOG, 0, 1126}
\* session.originalGravity: absent, 0, 1000 (SG 1.000)
SessionOGs == {NoOG, 0, 1000}
SessionIds == {1, 2}
\* device.id of the devices of the account
DeviceIds == {1, 2}
\* data.expires_in of the token response, in clock ticks
ExpiresIn == {1}

\* a reading: createdOn and gravity are what the function reads; temperature,
\* battery and rssi are carried along (two different sets of values)
RawSample(t, g) ==
    [createdOn |-> t, gravity |-> g,
     temperature |-> IF g = 1063 THEN 19 ELSE 29,
     battery |-> IF g = 1063 THEN 80 ELSE 15,
     rssi |-> 0 - 60]

\* two readings of the same instant and a later one
Samples == {RawSample(1, 1063), RawSample(1, 1010), RawSample(2, 1010)}

RECURSIVE SeqsUpTo(_, _)
SeqsUpTo(S, n) ==
    IF n = 0 THEN {<<>>}
    ELSE LET shorter == SeqsUpTo(S, n - 1)
         IN  shorter \cup {Append(s, x) : s \in {q \in shorter : Len(q) = n - 1}, x \in S}

Range(s) == {s[k] : k \in DOMAIN s}

\* GetTelemetry answers: readings, no reading twice
TelemetryResponses ==
    {s \in SeqsUpTo(Samples, MaxSamples) : Cardinality(Range(s)) = Len(s)}

Sessions == [id : SessionIds, originalGravity : SessionOGs]
Profiles == {[sessions |-> ss] : ss \in SeqsUpTo(Sessions, 1)}
\* GetProfiles answers
ProfileResponses == SeqsUpTo(Profiles, MaxProfiles)

\* GetHydrometers answers: device k has id k, with or without an active session;
\* a device of the list has no telemetry field
DeviceLists ==
    UNION {[1..n -> [id : DeviceIds, activeProfileSession : {NoSessionId, 1}]]
               : n \in 0..Cardinality(DeviceIds)}
IdsInOrder(ds) == \A k \in DOMAIN ds : ds[k].id = k
DeviceResponses == {ds \in DeviceLists : IdsInOrder(ds)}

VARIABLES
    manualOriginalGravity, \* CONFIG.manualOriginalGravity
    accessToken,           \* module-level token cache
    tokenExpiry,
    now,                   \* Date.now()
    pc,                    \* the await the request is suspended at
    ret,                   \* the request to issue once authenticate() returns
    data,                  \* fetchHydrometers: the device list being enriched
    i,                     \* index in data of the device of the running iteration
    telemetry,             \* locals of the iteration
    session,
    og,
    response,              \* what the handler returned
    calls,                 \* the requests answered since the request (or the iteration)
                           \* began, each with its outcome: makeRequest resolved or rejected
    authFailures,          \* how often authenticate() returned false in the running request
    pc2,                   \* a second request in the same process: the await it is at
    \* the dashboard
    tempConfig,            \* the thresholds in effect
    coldCrashMode,
    darkMode,
    monochromeMode,
    localStorage,          \* its items tempConfig (<<>>: not set), coldCrashMode, darkMode
                           \* and monochromeMode
    inputs,                \* the four fields of the settings form
    modalActive,           \* the settings modal is shown
    loading,               \* loadData calls awaiting fetchHydrometers
    refreshDisabled,       \* refreshBtn.disabled
    latestPending,         \* the loadData call that was made last still awaits its fetch
    shownLatest,           \* the cards are those of the loadData call that was made last
    shown,                 \* the device cards in the devices container
    charts                 \* the temperature points of the chart in each card

\* the state of the function and the state of the dashboard
Function == <<manualOriginalGravity, accessToken, tokenExpiry, now, pc, ret, data, i,
              telemetry, session, og, response, calls, authFailures, pc2>>
Theme == <<darkMode, monochromeMode>>
Dashboard == <<tempConfig, coldCrashMode, Theme, localStorage, inputs, modalActive, loading,
               refreshDisabled, latestPending, shownLatest, shown, charts>>

vars == <<Function, Dashboard>>

\* ------------------------------------------------------------ token cache
isTokenValid == accessToken # NoToken /\ tokenExpiry # NoExpiry /\ now < tokenExpiry

\* `if (!isTokenValid()) await authenticate();` and then the request `target`
Call(target) ==
    IF isTokenValid
    THEN pc' = target /\ ret' = ret
    ELSE pc' = "Authenticate" /\ ret' = target

\* makeRequest resolves only for a 2xx answer: "Bearer null" is never accepted, and
\* a token whose tokenExpiry (arrival of the token + expires_in, line 75) has passed
\* is past the lifetime the server gave it
ServerAccepts == accessToken # NoToken /\ now < tokenExpiry

\* makeRequest of the request `call` resolved (ok) or rejected
Answer(call, ok) == calls' = Append(calls, [call |-> call, ok |-> ok])

\* ------------------------------------------------------------- OG resolution
\* lines 150-158: the first session with the id, over the profiles in order
RECURSIVE FindSession(_, _)
FindSession(profiles, sessionId) ==
    IF profiles = <<>> THEN NullSession
    ELSE LET found == SelectSeq(Head(profiles).sessions, LAMBDA s : s.id = sessionId)
         IN  IF found # <<>> THEN Head(found)
             ELSE FindSession(Tail(profiles), sessionId)

\* lines 192-201: tier 1
ProfileSessionOG(s) ==
    IF s # NullSession /\ Truthy(s.originalGravity) THEN s.originalGravity ELSE NoOG

\* mutant: line 203 without `!og`, the manual OG overrides the session's
ManualOGOverrides(o) ==
    IF Truthy(manualOriginalGravity) THEN manualOriginalGravity ELSE o

\* mutant: lines 203-206 missing
ManualOGIgnored(o) == o

\* lines 203-206: tier 2
ManualOG(o) ==
    IF ~Truthy(o) /\ Truthy(manualOriginalGravity) THEN manualOriginalGravity ELSE o

\* Array.prototype.sort with (a, b) => a.createdOn - b.createdOn: stable
RECURSIVE Insert(_, _)
Insert(sorted, x) ==
    IF sorted = <<>> THEN <<x>>
    ELSE IF x.createdOn < Head(sorted).createdOn THEN <<x>> \o sorted
         ELSE <<Head(sorted)>> \o Insert(Tail(sorted), x)

\* mutant: line 209 without the sort, the first reading in input order
Unsorted(t) == t

RECURSIVE sortedByDate(_)
sortedByDate(t) ==
    IF t = <<>> THEN <<>>
    ELSE Insert(sortedByDate(SubSeq(t, 1, Len(t) - 1)), t[Len(t)])

\* lines 208-214: tier 3
FirstReadingOG(o, t) ==
    IF ~Truthy(o) THEN sortedByDate(t)[1].gravity ELSE o

\* line 212 on an empty array: sortedByDate[0] is undefined, reading its gravity
\* throws a TypeError
Throws(s, t) == ~Truthy(ManualOG(ProfileSessionOG(s))) /\ t = <<>>

\* lines 192-214
ResolveOG(s, t) == FirstReadingOG(ManualOG(ProfileSessionOG(s)), t)

\* ------------------------------------------------------------- derivation
\* (og / 1000 - gravity / 1000) * 131.25, exactly, in units of 0.00001 %
AbvExact(o, gravity) == (o - gravity) * 13125

\* mutant: line 222 without Math.max
NoClamp(x) == x

\* Math.max(0, x)
Max0(x) == IF x > 0 THEN x ELSE 0

\* toFixed(2) of a non-negative value given in units of 0.00001: the nearest
\* hundredth. The double the code rounds carries the rounding error of
\* og / 1000 - gravity / 1000, which is not tracked here; when the exact value lies
\* halfway between two hundredths the double lies on either side of it (OG 1126,
\* gravity 1010: 15.22; OG 1063, gravity 1059: 0.53), so both neighbours are kept,
\* `up` choosing between them. (ToFixed2Truncates is the mutant that cuts the
\* digits off instead of rounding.)
ToFixed2Truncates(x, up) == x \div 1000

ToFixed2(x, up) ==
    LET q == x \div 1000
        r == x % 1000
    IN  IF r > 500 \/ (r = 500 /\ up) THEN q + 1 ELSE q

\* line 222: parseFloat(Math.max(0, abv).toFixed(2))
Abv(o, gravity, up) == ToFixed2(Max0(AbvExact(o, gravity)), up)

\* lines 220-223: { ...t, abv }
Enrich(t, o, up) ==
    [f \in DOMAIN t \cup {"abv"} |-> IF f = "abv" THEN Abv(o, t.gravity, up) ELSE t[f]]

\* mutant: line 216 mapping the sorted copy instead of the telemetry
DeriveSorted(t, o) ==
    {[k \in 1..Len(t) |-> Enrich(sortedByDate(t)[k], o, c[k])] : c \in [1..Len(t) -> BOOLEAN]}

\* mutant: line 217 taking the gravity of the first sample for the OG
DeriveFromFirst(t, o) ==
    {[k \in 1..Len(t) |-> Enrich(t[k], t[1].gravity, c[k])] : c \in [1..Len(t) -> BOOLEAN]}

\* lines 216-224: telemetry.map, one outcome per choice of the halfway cases
Derive(t, o) ==
    {[k \in 1..Len(t) |-> Enrich(t[k], o, c[k])] : c \in [1..Len(t) -> BOOLEAN]}

\* mutant: line 188 as `if (telemetry)`, an empty array is truthy
HasTelemetryAlways(t) == TRUE

\* line 188
HasTelemetry(t) == Len(t) > 0

\* lines 189 and 216: device.telemetry = t
SetTelemetry(device, t) ==
    [f \in DOMAIN device \cup {"telemetry"} |-> IF f = "telemetry" THEN t ELSE device[f]]

\* line 194
HasActiveSession(device) == device.activeProfileSession # NoSessionId

\* ------------------------------------------------------------- dashboard
\* lines 532-537 (and 1138-1141, 1152-1157): the default thresholds
DefaultConfig ==
    [tempDangerMin |-> 18, tempWarningMin |-> 20, tempWarningMax |-> 26, tempDangerMax |-> 28]

ConfigFields == {"tempDangerMin", "tempWarningMin", "tempWarningMax", "tempDangerMax"}

\* parseFloat of a field that is empty or holds no number
NaN == -1000

\* the settings form with the values a, b, c, d in its four fields
Form(a, b, c, d) ==
    [tempDangerMin |-> a, tempWarningMin |-> b, tempWarningMax |-> c, tempDangerMax |-> d]

\* what the operator enters: the README's lager ranges, a 0 degree lower limit, an
\* empty field, limits out of order, limits that coincide
Typed ==
    {Form(8, 10, 13, 15), Form(0, 10, 26, 28), Form(NaN, 20, 26, 28),
     Form(30, 20, 26, 28), Form(20, 20, 26, 26)}

\* lines 1137-1142: parseFloat(value) || default, NaN and 0 are falsy
ParseForm(form) ==
    [f \in ConfigFields |->
        IF form[f] = NaN \/ form[f] = 0 THEN DefaultConfig[f] ELSE form[f]]

\* lines 528-537: the saved thresholds, or the defaults
loadTempConfig(storage) ==
    IF storage.tempConfig # <<>> THEN storage.tempConfig[1] ELSE DefaultConfig

\* temperatures of a latest reading, around the default and the lager limits
Temperatures == {5, 9, 12, 15, 18, 19, 20, 23, 26, 27, 28, 29}

\* a sample as the function returns it (lines 220-223)
Reading(t, temp) ==
    Enrich([createdOn |-> t, gravity |-> 1010, temperature |-> temp,
            battery |-> IF temp > 20 THEN 80 ELSE 15, rssi |-> 0 - 60], 1063, FALSE)

\* a reading of a hydrometer with another charge
Charged(reading, battery) == [reading EXCEPT !.battery = battery]

\* the telemetry of a device of the answer: one reading, or two in either order, or
\* two of the same instant; a hydrometer at 23 degrees with 19 and with 20 percent of
\* charge (those at 15 and at 29 degrees have 15 and 80)
ShownTelemetry ==
    {<<Reading(2, temp)>> : temp \in Temperatures}
        \cup {<<Reading(1, 15), Reading(2, 23)>>, <<Reading(2, 23), Reading(1, 15)>>,
              <<Reading(2, 19), Reading(2, 29)>>}
        \cup {<<Charged(Reading(2, 23), 19)>>, <<Charged(Reading(2, 23), 20)>>}

\* the device lists of an answer: none, one device with or without telemetry, two
ShownDevices ==
    LET bare(id) == [id |-> id, activeProfileSession |-> NoSessionId]
    IN  {<<>>, <<bare(1)>>}
            \cup {<<SetTelemetry(bare(1), t)>> : t \in ShownTelemetry}
            \cup {<<bare(1), SetTelemetry(bare(2), <<Reading(2, 29)>>)>>}

\* what fetch('/.netlify/functions/hydrometers') resolves to: an answer of the
\* handler to a GET (lines 263-276); NoResponse stands for a fetch that rejects
FetchResponses ==
    {NoResponse, ErrorResponse("HTTP")}
        \cup {[statusCode |-> 200, body |-> ArrayBody(devices)] : devices \in ShownDevices}

\* lines 662-670: the paths into the catch of fetchHydrometers
FetchThrows(r) ==
    \/ r = NoResponse
    \/ ~(r.statusCode >= 200 /\ r.statusCode < 300)
    \/ (r.body.json = "object" /\ "error" \in DOMAIN r.body)

\* mutant: a load that resets the thresholds to the defaults
FetchedConfigDefaults(r, current) == DefaultConfig

\* lines 672-675: if (data.config) tempConfig = data.config
FetchedConfig(r, current) ==
    IF ~FetchThrows(r) /\ r.body.json = "object" /\ "config" \in DOMAIN r.body
    THEN r.body.config
    ELSE current

\* lines 679 and 683: data.devices || data, or [] from the catch
FetchedDevices(r) ==
    IF FetchThrows(r) THEN <<>>
    ELSE IF r.body.json = "object" /\ "devices" \in DOMAIN r.body THEN r.body.devices
    ELSE r.body.items

\* device.telemetry && device.telemetry.length > 0 (lines 964, 973, 1080)
HasReadings(device) == "telemetry" \in DOMAIN device /\ Len(device.telemetry) > 0

\* Array.prototype.sort with (a, b) => b.createdOn - a.createdOn: stable, latest first
RECURSIVE InsertLatestFirst(_, _)
InsertLatestFirst(sorted, x) ==
    IF sorted = <<>> THEN <<x>>
    ELSE IF x.createdOn > Head(sorted).createdOn THEN <<x>> \o sorted
         ELSE <<Head(sorted)>> \o InsertLatestFirst(Tail(sorted), x)

RECURSIVE LatestFirst(_)
LatestFirst(t) ==
    IF t = <<>> THEN <<>>
    ELSE InsertLatestFirst(LatestFirst(SubSeq(t, 1, Len(t) - 1)), t[Len(t)])

\* lines 973-975: latestData of a device with readings
latestData(device) == LatestFirst(device.telemetry)[1]

\* mutant: lines 998-999 with the cold-crash test on both dangers
tempClassColdCrashBoth(temp, config, coldCrash) ==
    LET isLowDanger == temp < config.tempDangerMin /\ ~coldCrash
        isHighDanger == temp > config.tempDangerMax /\ ~coldCrash
    IN  IF isLowDanger \/ isHighDanger THEN "info-card temp-danger"
        ELSE IF \/ (temp >= config.tempDangerMin /\ temp < config.tempWarningMin)
                \/ (temp > config.tempWarningMax /\ temp <= config.tempDangerMax)
             THEN "info-card temp-warning"
        ELSE IF temp >= config.tempWarningMin /\ temp <= config.tempWarningMax
             THEN "info-card temp-good"
        ELSE IF coldCrash /\ temp < config.tempDangerMin THEN "info-card temp-good"
        ELSE "info-card"

\* lines 995-1011: the class of the temperature card
tempClass(temp, config, coldCrash) ==
    LET isLowDanger == temp < config.tempDangerMin /\ ~coldCrash
        isHighDanger == temp > config.tempDangerMax
    IN  IF isLowDanger \/ isHighDanger THEN "info-card temp-danger"
        ELSE IF \/ (temp >= config.tempDangerMin /\ temp < config.tempWarningMin)
                \/ (temp > config.tempWarningMax /\ temp <= config.tempDangerMax)
             THEN "info-card temp-warning"
        ELSE IF temp >= config.tempWarningMin /\ temp <= config.tempWarningMax
             THEN "info-card temp-good"
        ELSE IF coldCrash /\ temp < config.tempDangerMin THEN "info-card temp-good"
        ELSE "info-card"

\* mutant: line 980 with the limit itself counted as low
lowBatteryAtLimit(latest) == latest.battery <= 20

\* line 980: lowBattery, for a latestData that is not null
lowBattery(latest) == latest.battery < 20

\* no alert in the card
NoWarning == <<>>

\* lines 989 and 991: the alert and the limit its text names
Warning(kind, bound) == <<[kind |-> kind, bound |-> bound]>>

\* mutant: line 987 without the cold-crash test
tempWarningAlsoColdCrash(latest, config, coldCrash) ==
    LET highTemp == latest.temperature > config.tempDangerMax
        lowTemp == latest.temperature < config.tempDangerMin
    IN  IF highTemp THEN Warning("High Temperature Warning", config.tempDangerMax)
        ELSE IF lowTemp THEN Warning("Low Temperature Warning", config.tempDangerMin)
        ELSE NoWarning

\* lines 986-992: tempWarning, for a latestData that is not null
tempWarning(latest, config, coldCrash) ==
    LET highTemp == latest.temperature > config.tempDangerMax
        lowTemp == latest.temperature < config.tempDangerMin /\ ~coldCrash
    IN  IF highTemp THEN Warning("High Temperature Warning", config.tempDangerMax)
        ELSE IF lowTemp THEN Warning("Low Temperature Warning", config.tempDangerMin)
        ELSE NoWarning

\* lines 969-1077: the card of a device; without readings it says "No telemetry
\* data available" and has no temperature card and no alert (latestData is null)
Card(device, config, coldCrash) ==
    IF HasReadings(device)
    THEN [id |-> device.id, latest |-> <<latestData(device)>>,
          lowBattery |-> lowBattery(latestData(device)),
          tempWarning |-> tempWarning(latestData(device), config, coldCrash),
          tempClass |-> tempClass(latestData(device).temperature, config, coldCrash)]
    ELSE [id |-> device.id, latest |-> <<>>, lowBattery |-> FALSE,
          tempWarning |-> NoWarning, tempClass |-> "info-card"]

\* lines 953-1095: displayDevices, one card per device in the order of the list
displayDevices(hydrometers, config, coldCrash) ==
    [k \in 1..Len(hydrometers) |-> Card(hydrometers[k], config, coldCrash)]

\* mutant: lines 764-784 without the cold-crash test (as lines 205-224 have it)
tempColorsNoColdCrash(temp, config, coldCrash, monochrome, dark) ==
    LET isLowTemp == temp < config.tempDangerMin
        isHighTemp == temp > config.tempDangerMax
        isWarning == \/ (temp >= config.tempDangerMin /\ temp < config.tempWarningMin)
                     \/ (temp > config.tempWarningMax /\ temp <= config.tempDangerMax)
    IN  IF monochrome
        THEN IF isLowTemp \/ isHighTemp
             THEN (IF dark THEN "rgb(212, 212, 212)" ELSE "rgb(82, 82, 82)")
             ELSE IF isWarning
                  THEN (IF dark THEN "rgb(163, 163, 163)" ELSE "rgb(115, 115, 115)")
             ELSE (IF dark THEN "rgb(115, 115, 115)" ELSE "rgb(64, 64, 64)")
        ELSE IF isLowTemp \/ isHighTemp THEN "rgb(239, 68, 68)"
             ELSE IF isWarning THEN "rgb(249, 115, 22)"
             ELSE "rgb(34, 197, 94)"

\* lines 761-784: the colour of the point of a sample in tempColors
tempColors(temp, config, coldCrash, monochrome, dark) ==
    LET isLowTemp == temp < config.tempDangerMin
        isHighTemp == temp > config.tempDangerMax
        isWarning == \/ (temp >= config.tempDangerMin /\ temp < config.tempWarningMin)
                     \/ (temp > config.tempWarningMax /\ temp <= config.tempDangerMax)
    IN  IF monochrome
        THEN IF (isLowTemp /\ ~coldCrash) \/ isHighTemp
             THEN (IF dark THEN "rgb(212, 212, 212)" ELSE "rgb(82, 82, 82)")
             ELSE IF isWarning
                  THEN (IF dark THEN "rgb(163, 163, 163)" ELSE "rgb(115, 115, 115)")
             ELSE (IF dark THEN "rgb(115, 115, 115)" ELSE "rgb(64, 64, 64)")
        ELSE IF (isLowTemp /\ ~coldCrash) \/ isHighTemp THEN "rgb(239, 68, 68)"
             ELSE IF isWarning THEN "rgb(249, 115, 22)"
             ELSE "rgb(34, 197, 94)"

\* the points of the temperature dataset: the temperatures that are drawn, each with
\* its colour
Points(temperatures, config, coldCrash, monochrome, dark) ==
    [j \in DOMAIN temperatures |->
        [temperature |-> temperatures[j],
         colour |-> tempColors(temperatures[j], config, coldCrash, monochrome, dark)]]

\* lines 694-947: createChart, the samples sorted by time (lines 721-723); the
\* readings of the answers all lie within the time range that is selected
createChart(telemetryData, config, coldCrash, monochrome, dark) ==
    LET sortedData == sortedByDate(telemetryData)
    IN  Points([j \in DOMAIN sortedData |-> sortedData[j].temperature],
               config, coldCrash, monochrome, dark)

\* lines 1078-1093: a chart for every device with telemetry, in the canvas of its
\* card (the timer of 100 ms is taken to fire before the next event)
createCharts(hydrometers, config, coldCrash, monochrome, dark) ==
    [k \in 1..Len(hydrometers) |->
        IF HasReadings(hydrometers[k])
        THEN createChart(hydrometers[k].telemetry, config, coldCrash, monochrome, dark)
        ELSE <<>>]

\* lines 577-586: applyTheme draws every chart anew from the telemetry it was made of
applyTheme(drawn, config, coldCrash, monochrome, dark) ==
    [k \in DOMAIN drawn |->
        Points([j \in DOMAIN drawn[k] |-> drawn[k][j].temperature],
               config, coldCrash, monochrome, dark)]

\* ------------------------------------------------------------------ Init
\* the function was loaded: no token, no request
InitFunction ==
    /\ manualOriginalGravity \in ManualOGs
    /\ accessToken = NoToken
    /\ tokenExpiry = NoExpiry
    /\ now = 1
    /\ pc = "idle"
    /\ ret = "idle"
    /\ data = <<>>
    /\ i = 0
    /\ telemetry = <<>>
    /\ session = NullSession
    /\ og = NoOG
    /\ response = NoResponse
    /\ calls = <<>>
    /\ authFailures = 0
    /\ pc2 = "idle"

\* localStorage of a browser that has not shown the page before
FirstVisit ==
    [tempConfig |-> <<>>, coldCrashMode |-> FALSE, darkMode |-> FALSE,
     monochromeMode |-> FALSE]

\* the page is loaded with `storage` in localStorage (lines 540-545 and 1177)
InitPage(storage) ==
    /\ localStorage = storage
    /\ tempConfig = loadTempConfig(localStorage)
    /\ coldCrashMode = localStorage.coldCrashMode
    /\ darkMode = localStorage.darkMode
    /\ monochromeMode = localStorage.monochromeMode
    /\ charts = <<>>
    /\ inputs = Form(NaN, NaN, NaN, NaN)
    /\ modalActive = FALSE
    /\ loading = 1
    /\ refreshDisabled = TRUE
    /\ latestPending = TRUE
    /\ shownLatest = FALSE
    /\ shown = <<>>

Init == InitFunction /\ InitPage(FirstVisit)

\* --------------------------------------------------------------- actions
Locals == <<telemetry, session, og>>
Token == <<accessToken, tokenExpiry>>

\* exports.handler, lines 245-261: answers that fetch nothing
HandlerOther ==
    /\ pc = "idle"
    /\ \E method \in {"OPTIONS", "POST"} :
          response' = IF method = "OPTIONS"
                      THEN [statusCode |-> 200, body |-> EmptyBody]
                      ELSE [statusCode |-> 405, body |-> ErrorBody("Method not allowed")]
    /\ calls' = <<>>
    /\ authFailures' = 0
    /\ UNCHANGED <<Dashboard, pc2, manualOriginalGravity, Token, now, pc, ret, data, i, Locals>>

\* exports.handler with GET: fetchHydrometers starts (lines 166-174)
HandlerGet ==
    /\ pc = "idle"
    /\ Call("GetHydrometers")
    /\ data' = <<>>
    /\ i' = 0
    /\ telemetry' = <<>>
    /\ session' = NullSession
    /\ og' = NoOG
    /\ response' = NoResponse
    /\ calls' = <<>>
    /\ authFailures' = 0
    /\ UNCHANGED <<Dashboard, pc2, manualOriginalGravity, Token, now>>

\* authenticate, lines 74-77
AuthenticateOk ==
    /\ pc = "Authenticate"
    /\ \E expires_in \in ExpiresIn :
          /\ accessToken' = 1
          /\ tokenExpiry' = now + expires_in
    /\ pc' = ret
    /\ Answer("Authenticate", TRUE)
    /\ UNCHANGED <<Dashboard, pc2, manualOriginalGravity, now, ret, data, i, Locals, response, authFailures>>

\* mutant: lines 78-81 with the cache cleared in the catch
AuthenticateFailClears ==
    /\ pc = "Authenticate"
    /\ pc' = ret
    /\ Answer("Authenticate", FALSE)
    /\ authFailures' = authFailures + 1
    /\ accessToken' = NoToken
    /\ tokenExpiry' = NoExpiry
    /\ UNCHANGED <<Dashboard, pc2, manualOriginalGravity, now, ret, data, i, Locals, response>>

\* authenticate, lines 78-81: it returns false, which no caller reads, and the
\* caller goes on with the token it has
AuthenticateFail ==
    /\ pc = "Authenticate"
    /\ pc' = ret
    /\ Answer("Authenticate", FALSE)
    /\ authFailures' = authFailures + 1
    /\ UNCHANGED <<Dashboard, pc2, manualOriginalGravity, Token, now, ret, data, i, Locals, response>>

\* lines 174-182: the device list arrived
GetHydrometersOk ==
    /\ pc = "GetHydrometers"
    /\ ServerAccepts
    /\ \E devices \in DeviceResponses : data' = devices
    /\ pc' = "Iterate"
    /\ Answer("GetHydrometers", TRUE)
    /\ UNCHANGED <<Dashboard, pc2, manualOriginalGravity, Token, now, ret, i, Locals, response, authFailures>>

\* lines 229-232 and 270-275: the device list failed, the handler answers 500
GetHydrometersFail ==
    /\ pc = "GetHydrometers"
    /\ pc' = "idle"
    /\ response' = ErrorResponse("HTTP")
    /\ Answer("GetHydrometers", FALSE)
    /\ UNCHANGED <<Dashboard, pc2, manualOriginalGravity, Token, now, ret, data, i, Locals, authFailures>>

\* line 184: the next device, fetchTelemetry(device.id) (lines 90-109)
NextDevice ==
    /\ pc = "Iterate"
    /\ i < Len(data)
    /\ i' = i + 1
    /\ telemetry' = <<>>
    /\ session' = NullSession
    /\ og' = NoOG
    /\ Call("GetTelemetry")
    /\ calls' = <<>>
    /\ UNCHANGED <<Dashboard, pc2, manualOriginalGravity, Token, now, data, response, authFailures>>

\* lines 228 and 264-269: the loop is over, the handler answers 200 and the
\* locals of fetchHydrometers are gone
Return ==
    /\ pc = "Iterate"
    /\ i = Len(data)
    /\ pc' = "idle"
    /\ response' = [statusCode |-> 200, body |-> ArrayBody(data)]
    /\ data' = <<>>
    /\ i' = 0
    /\ telemetry' = <<>>
    /\ session' = NullSession
    /\ og' = NoOG
    /\ calls' = <<>>
    /\ UNCHANGED <<Dashboard, pc2, manualOriginalGravity, Token, now, ret, authFailures>>

\* lines 203-224 for the device of the iteration; an exception leaves
\* fetchHydrometers through lines 229-232 and the handler answers 500
ResolveAndDerive(t, s) ==
    IF Throws(s, t)
    THEN /\ pc' = "idle"
         /\ response' = ErrorResponse("TypeError")
         /\ UNCHANGED <<ret, data, og>>
    ELSE /\ og' = ResolveOG(s, t)
         /\ \E enriched \in Derive(t, ResolveOG(s, t)) :
               data' = [data EXCEPT ![i] = SetTelemetry(data[i], enriched)]
         /\ pc' = "Iterate"
         /\ UNCHANGED <<ret, response>>

\* lines 187-196: what follows the telemetry `t` of the device
AfterTelemetry(t) ==
    /\ telemetry' = t
    /\ IF HasTelemetry(t)
       THEN IF HasActiveSession(data[i])
            THEN /\ Call("GetProfiles")
                 /\ data' = [data EXCEPT ![i] = SetTelemetry(data[i], t)]
                 /\ UNCHANGED <<session, og, response>>
            ELSE /\ ResolveAndDerive(t, NullSession)
                 /\ session' = NullSession
       ELSE /\ pc' = "Iterate"
            /\ UNCHANGED <<ret, data, session, og, response>>
    /\ UNCHANGED <<Dashboard, pc2, manualOriginalGravity, Token, now, i, authFailures>>

\* lines 103-112: the windowed call answered
GetTelemetryOk ==
    /\ pc = "GetTelemetry"
    /\ ServerAccepts
    /\ Answer("GetTelemetry", TRUE)
    /\ \E t \in TelemetryResponses : AfterTelemetry(t)

\* mutant: lines 113-130 without the alternative call, a failure gives []
GetTelemetryGivesUp ==
    /\ pc = "GetTelemetry"
    /\ Answer("GetTelemetry", FALSE)
    /\ AfterTelemetry(<<>>)

\* lines 113-118: the windowed call failed, the unwindowed call is issued
GetTelemetryFail ==
    /\ pc = "GetTelemetry"
    /\ pc' = "GetTelemetryAlt"
    /\ Answer("GetTelemetry", FALSE)
    /\ UNCHANGED <<Dashboard, pc2, manualOriginalGravity, Token, now, ret, data, i, Locals, response,
                   authFailures>>

\* lines 118-126
GetTelemetryAltOk ==
    /\ pc = "GetTelemetryAlt"
    /\ ServerAccepts
    /\ Answer("GetTelemetryAlt", TRUE)
    /\ \E t \in TelemetryResponses : AfterTelemetry(t)

\* mutant: fetchTelemetry without its inner catch, the rejection reaches the handler
GetTelemetryAltFailThrows ==
    /\ pc = "GetTelemetryAlt"
    /\ Answer("GetTelemetryAlt", FALSE)
    /\ pc' = "idle"
    /\ response' = ErrorResponse("HTTP")
    /\ UNCHANGED <<Dashboard, pc2, manualOriginalGravity, Token, now, ret, data, i, Locals, authFailures>>

\* lines 127-130: both calls failed, the telemetry is []
GetTelemetryAltFail ==
    /\ pc = "GetTelemetryAlt"
    /\ Answer("GetTelemetryAlt", FALSE)
    /\ AfterTelemetry(<<>>)

\* lines 142-158 and 196-224: the profiles arrived
GetProfilesOk ==
    /\ pc = "GetProfiles"
    /\ ServerAccepts
    /\ Answer("GetProfiles", TRUE)
    /\ \E profiles \in ProfileResponses :
          LET s == FindSession(profiles, data[i].activeProfileSession)
          IN  /\ session' = s
              /\ ResolveAndDerive(telemetry, s)
    /\ UNCHANGED <<Dashboard, pc2, manualOriginalGravity, Token, now, i, telemetry, authFailures>>

\* mutant: fetchProfileSession without its catch, the rejection reaches the handler
GetProfilesFailThrows ==
    /\ pc = "GetProfiles"
    /\ Answer("GetProfiles", FALSE)
    /\ pc' = "idle"
    /\ response' = ErrorResponse("HTTP")
    /\ UNCHANGED <<Dashboard, pc2, manualOriginalGravity, Token, now, ret, data, i, Locals, authFailures>>

\* lines 159-162 and 196-224: the lookup failed, the session is null
GetProfilesFail ==
    /\ pc = "GetProfiles"
    /\ Answer("GetProfiles", FALSE)
    /\ session' = NullSession
    /\ ResolveAndDerive(telemetry, NullSession)
    /\ UNCHANGED <<Dashboard, pc2, manualOriginalGravity, Token, now, i, telemetry, authFailures>>

\* time passes
Tick ==
    /\ now < MaxTime
    /\ now' = now + 1
    /\ UNCHANGED <<Dashboard, pc2, manualOriginalGravity, Token, pc, ret, data, i, Locals, response,
                   calls, authFailures>>

Next ==
    \/ HandlerOther
    \/ HandlerGet
    \/ AuthenticateOk
    \/ AuthenticateFail
    \/ GetHydrometersOk
    \/ GetHydrometersFail
    \/ NextDevice
    \/ Return
    \/ GetTelemetryOk
    \/ GetTelemetryFail
    \/ GetTelemetryAltOk
    \/ GetTelemetryAltFail
    \/ GetProfilesOk
    \/ GetProfilesFail

\* requests made within the lifetime of the token
Spec == Init /\ [][Next]_vars

\* the same with the clock running, so that a cached token expires
NextClock == Next \/ Tick
SpecClock == Init /\ [][NextClock]_vars

\* ------------------------------------------- a second request, interleaved
\* Of a second invocation of exports.handler in the same process only the steps that
\* read or write the token cache are followed; its device list and its answer are
\* its own.
Unchanged2 ==
    UNCHANGED <<Dashboard, manualOriginalGravity, now, pc, ret, data, i, Locals, response,
                calls, authFailures>>

\* `if (!isTokenValid()) await authenticate();` of the second request
Call2 == pc2' = IF isTokenValid THEN "Fetching" ELSE "Authenticate"

\* exports.handler with GET: fetchHydrometers starts (lines 166-174)
HandlerGet2 ==
    /\ pc2 = "idle"
    /\ Call2
    /\ UNCHANGED Token
    /\ Unchanged2

\* fetchTelemetry or fetchProfileSession of the second request (lines 90-93, 135-138)
NextCall2 ==
    /\ pc2 = "Fetching"
    /\ ~isTokenValid
    /\ Call2
    /\ UNCHANGED Token
    /\ Unchanged2

\* authenticate of the second request, lines 74-77
AuthenticateOk2 ==
    /\ pc2 = "Authenticate"
    /\ \E expires_in \in ExpiresIn :
          /\ accessToken' = 1
          /\ tokenExpiry' = now + expires_in
    /\ pc2' = "Fetching"
    /\ Unchanged2

\* authenticate of the second request, lines 78-81
AuthenticateFail2 ==
    /\ pc2 = "Authenticate"
    /\ pc2' = "Fetching"
    /\ UNCHANGED Token
    /\ Unchanged2

\* the second request is answered (lines 264-275)
Return2 ==
    /\ pc2 = "Fetching"
    /\ pc2' = "idle"
    /\ UNCHANGED Token
    /\ Unchanged2

NextInterleaved ==
    \/ NextClock
    \/ HandlerGet2
    \/ NextCall2
    \/ AuthenticateOk2
    \/ AuthenticateFail2
    \/ Return2

\* two requests in one process, with the clock running
SpecInterleaved == Init /\ [][NextInterleaved]_vars

\* ------------------------------------------------------ dashboard actions
\* mutant: the handlers without their loadData()
NoLoad == UNCHANGED <<loading, refreshDisabled, latestPending, shownLatest>>

\* lines 1098-1102: loadData up to its await
StartLoad ==
    /\ loading' = loading + 1
    /\ refreshDisabled' = TRUE
    /\ latestPending' = TRUE
    /\ shownLatest' = FALSE

\* the page is loaded again: lines 540-545 read localStorage and line 1177 loads the
\* data; the loads of the page before are gone with it
PageLoad ==
    /\ tempConfig' = loadTempConfig(localStorage)
    /\ coldCrashMode' = localStorage.coldCrashMode
    /\ darkMode' = localStorage.darkMode
    /\ monochromeMode' = localStorage.monochromeMode
    /\ charts' = <<>>
    /\ inputs' = Form(NaN, NaN, NaN, NaN)
    /\ modalActive' = FALSE
    /\ loading' = 1
    /\ refreshDisabled' = TRUE
    /\ latestPending' = TRUE
    /\ shownLatest' = FALSE
    /\ shown' = <<>>
    /\ UNCHANGED <<Function, localStorage>>

\* line 1109: a click on the refresh button
RefreshClick ==
    /\ ~refreshDisabled
    /\ loading < MaxLoads
    /\ StartLoad
    /\ UNCHANGED <<Function, tempConfig, coldCrashMode, localStorage, inputs, modalActive,
                   shown, Theme, charts>>

\* lines 601-607
toggleColdCrashMode ==
    /\ loading < MaxLoads
    /\ coldCrashMode' = ~coldCrashMode
    /\ localStorage' = [localStorage EXCEPT !.coldCrashMode = ~coldCrashMode]
    /\ charts' = applyTheme(charts, tempConfig, ~coldCrashMode, monochromeMode, darkMode)
    /\ StartLoad
    /\ UNCHANGED <<Function, tempConfig, Theme, inputs, modalActive, shown>>

\* lines 1122-1130
openSettings ==
    /\ ~modalActive
    /\ inputs' = tempConfig
    /\ modalActive' = TRUE
    /\ UNCHANGED <<Function, tempConfig, coldCrashMode, localStorage, loading,
                   refreshDisabled, latestPending, shownLatest, shown, Theme, charts>>

\* lines 1132-1134 (the close button, or a click outside the modal)
closeSettings ==
    /\ modalActive
    /\ modalActive' = FALSE
    /\ UNCHANGED <<Function, tempConfig, coldCrashMode, localStorage, inputs, loading,
                   refreshDisabled, latestPending, shownLatest, shown, Theme, charts>>

\* the operator fills in the form
TypeSettings ==
    /\ modalActive
    /\ \E form \in Typed : inputs' = form
    /\ UNCHANGED <<Function, tempConfig, coldCrashMode, localStorage, modalActive, loading,
                   refreshDisabled, latestPending, shownLatest, shown, Theme, charts>>

\* lines 1151-1163: the defaults go into the form, not into tempConfig
resetSettings ==
    /\ modalActive
    /\ inputs' = DefaultConfig
    /\ UNCHANGED <<Function, tempConfig, coldCrashMode, localStorage, modalActive, loading,
                   refreshDisabled, latestPending, shownLatest, shown, Theme, charts>>

\* lines 1136-1149
saveSettings ==
    /\ modalActive
    /\ loading < MaxLoads
    /\ tempConfig' = ParseForm(inputs)
    /\ localStorage' = [localStorage EXCEPT !.tempConfig = <<ParseForm(inputs)>>]
    /\ modalActive' = FALSE
    /\ StartLoad
    /\ UNCHANGED <<Function, coldCrashMode, inputs, shown, Theme, charts>>

\* lines 660-685 and 1102-1105: the fetch of a load is answered, fetchHydrometers
\* returns and loadData displays the devices. The fetches are answered in any order:
\* it is the fetch of the call made last (latest), or one of an earlier call.
LoadArrives ==
    /\ loading > 0
    /\ \E latest \in BOOLEAN :
          /\ latest => latestPending
          /\ ~latest => loading > (IF latestPending THEN 1 ELSE 0)
          /\ latestPending' = (latestPending /\ ~latest)
          /\ shownLatest' = latest
    /\ \E r \in FetchResponses :
          /\ tempConfig' = FetchedConfig(r, tempConfig)
          /\ shown' = displayDevices(FetchedDevices(r), FetchedConfig(r, tempConfig),
                                     coldCrashMode)
          /\ charts' = createCharts(FetchedDevices(r), FetchedConfig(r, tempConfig),
                                    coldCrashMode, monochromeMode, darkMode)
    /\ loading' = loading - 1
    /\ refreshDisabled' = FALSE
    /\ UNCHANGED <<Function, coldCrashMode, Theme, localStorage, inputs, modalActive>>

\* lines 589-593
toggleDarkMode ==
    /\ darkMode' = ~darkMode
    /\ localStorage' = [localStorage EXCEPT !.darkMode = ~darkMode]
    /\ charts' = applyTheme(charts, tempConfig, coldCrashMode, monochromeMode, ~darkMode)
    /\ UNCHANGED <<Function, tempConfig, coldCrashMode, monochromeMode, inputs, modalActive,
                   loading, refreshDisabled, latestPending, shownLatest, shown>>

\* lines 595-599
toggleMonochromeMode ==
    /\ monochromeMode' = ~monochromeMode
    /\ localStorage' = [localStorage EXCEPT !.monochromeMode = ~monochromeMode]
    /\ charts' = applyTheme(charts, tempConfig, coldCrashMode, ~monochromeMode, darkMode)
    /\ UNCHANGED <<Function, tempConfig, coldCrashMode, darkMode, inputs, modalActive,
                   loading, refreshDisabled, latestPending, shownLatest, shown>>

NextDashboard ==
    \/ PageLoad
    \/ RefreshClick
    \/ toggleColdCrashMode
    \/ openSettings
    \/ closeSettings
    \/ TypeSettings
    \/ resetSettings
    \/ saveSettings
    \/ LoadArrives

\* the dashboard of an account whose function runs without a manual OG
InitDashboard == Init /\ manualOriginalGravity = NoOG
SpecDashboard == InitDashboard /\ [][NextDashboard]_vars

\* what earlier visits have left in localStorage: the thresholds of a saved form, or
\* none, and the three switches
Stored ==
    [tempConfig : {<<>>} \cup {<<ParseForm(form)>> : form \in Typed},
     coldCrashMode : BOOLEAN, darkMode : BOOLEAN, monochromeMode : BOOLEAN]

\* the handlers that draw charts, on a page loaded with any of these
InitChart ==
    /\ InitFunction
    /\ manualOriginalGravity = NoOG
    /\ \E storage \in Stored : InitPage(storage)

NextChart ==
    \/ RefreshClick
    \/ toggleColdCrashMode
    \/ toggleDarkMode
    \/ toggleMonochromeMode
    \/ LoadArrives

SpecChart == InitChart /\ [][NextChart]_vars

\* ------------------------------------------------------------------ claims
\* The iteration of device i is over (the loop is back at line 184) and its
\* locals still hold: telemetry is what fetchTelemetry returned, session what
\* fetchProfileSession returned (null when it was not called), og the resolved OG.
IterationDone == pc = "Iterate" /\ i >= 1
Enriched == IterationDone /\ Len(telemetry) > 0

\* the looked-up session carries an originalGravity field
SessionHasOG == session # NullSession /\ session.originalGravity # NoOG
\* the code takes the session's OG: the field is there and is not 0
SessionOGTaken == session # NullSession /\ Truthy(session.originalGravity)

\* the telemetry t in every order
Reorderings(t) ==
    {[k \in 1..Len(t) |-> t[f[k]]] : f \in Permutations(1..Len(t))}

\* the readings of t with the earliest createdOn
Earliest(t) ==
    {k \in 1..Len(t) : \A j \in 1..Len(t) : t[k].createdOn <= t[j].createdOn}

\* C1 as stated: whenever the looked-up session carries an originalGravity value,
\* the OG of the device is that value.
C1_AnySessionValue ==
    (Enriched /\ HasActiveSession(data[i]) /\ SessionHasOG)
        => og = session.originalGravity

\* C1, amended: whenever the looked-up session of a device with an active profile
\* session carries a non-zero originalGravity, the OG of the device is that value and
\* the enriched telemetry is derived from it, whatever the manual OG and the
\* telemetry gravities are.
C1_ProfileSessionFirst ==
    (Enriched /\ HasActiveSession(data[i]) /\ SessionOGTaken)
        => /\ og = session.originalGravity
           /\ data[i].telemetry \in Derive(telemetry, session.originalGravity)

C1_Witness ==
    /\ Enriched /\ HasActiveSession(data[i]) /\ SessionOGTaken
    /\ Truthy(manualOriginalGravity)
    /\ og = session.originalGravity
    /\ og # sortedByDate(telemetry)[1].gravity

\* C2 as stated: with no profile-session OG (no active session, session not found,
\* session without originalGravity) and a configured manual OG, the OG is the manual
\* value.
C2_AnyManualValue ==
    (Enriched /\ ~SessionHasOG /\ manualOriginalGravity # NoOG)
        => og = manualOriginalGravity

\* C2, amended: with no profile-session OG (no active session, session not found,
\* session without originalGravity or with originalGravity 0) and a configured
\* non-zero manual OG, the OG is the manual value, whatever the telemetry contains.
C2_ManualSecond ==
    (Enriched /\ ~SessionOGTaken /\ Truthy(manualOriginalGravity))
        => /\ og = manualOriginalGravity
           /\ data[i].telemetry \in Derive(telemetry, manualOriginalGravity)

C2_Witness ==
    /\ Enriched /\ ~SessionOGTaken /\ Truthy(manualOriginalGravity)
    /\ og = manualOriginalGravity
    /\ og # sortedByDate(telemetry)[1].gravity

\* C3 as stated: with no profile-session OG and no manual OG, the OG is the gravity
\* of the earliest sample and is the same for every permutation of the telemetry.
C3_EveryPermutation ==
    (Enriched /\ ~SessionHasOG /\ manualOriginalGravity = NoOG)
        => /\ \E k \in Earliest(telemetry) : og = telemetry[k].gravity
           /\ \A p \in Reorderings(telemetry) : ResolveOG(session, p) = og

\* C3, amended: with no profile-session OG and no manual OG (absent or 0), the OG is
\* the gravity of the first sample, in input order, among those with the earliest
\* createdOn; when all the samples with the earliest createdOn have the same gravity
\* (in particular when one sample alone is the earliest) the resolved OG is the same
\* for every permutation of the telemetry.
C3_EarliestReading ==
    (Enriched /\ ~SessionOGTaken /\ ~Truthy(manualOriginalGravity))
        => /\ \E k \in Earliest(telemetry) :
                /\ \A j \in Earliest(telemetry) : k <= j
                /\ og = telemetry[k].gravity
           /\ (\A j, k \in Earliest(telemetry) : telemetry[j].gravity = telemetry[k].gravity)
                => \A p \in Reorderings(telemetry) : ResolveOG(session, p) = og

C3_Witness ==
    /\ Enriched /\ ~SessionOGTaken /\ ~Truthy(manualOriginalGravity)
    /\ Len(telemetry) = 2
    /\ telemetry[2].createdOn < telemetry[1].createdOn
    /\ telemetry[2].gravity # telemetry[1].gravity
    /\ og = telemetry[2].gravity

\* the samples a device carries: none when its telemetry was never assigned
SamplesOf(device) == IF "telemetry" \in DOMAIN device THEN device.telemetry ELSE <<>>

\* the handler answered a GET with the device list
Answered == response.statusCode = 200 /\ response.body.json = "array"

\* every sample of every device carries an abv, and none below 0
AbvNotNegative(devices) ==
    \A k \in DOMAIN devices : \A j \in DOMAIN SamplesOf(devices[k]) :
        LET sample == SamplesOf(devices[k])[j]
        IN  "abv" \in DOMAIN sample /\ sample.abv >= 0

\* C4: in every response, and for every device whose iteration is over, every sample
\* of the enriched telemetry has abv >= 0, also when its gravity is above the OG.
C4_AbvNotNegative ==
    /\ Answered => AbvNotNegative(response.body.items)
    /\ IterationDone => AbvNotNegative(SubSeq(data, 1, i))

C4_Witness ==
    /\ Enriched
    /\ \E k \in 1..Len(telemetry) :
          telemetry[k].gravity > og /\ data[i].telemetry[k].abv = 0

\* C5: the abv of a sample is max(0, (OG/1000 - gravity/1000) * 131.25) rounded to two
\* decimals: a hundredth at most 0.005 away from it; OG 1063 and gravity 1010 give 6.96.
C5_AbvFormula ==
    Enriched =>
        \A k \in 1..Len(telemetry) :
            LET d == og - telemetry[k].gravity
                exact == IF d > 0 THEN d * 13125 ELSE 0
                abv == data[i].telemetry[k].abv
            IN  /\ abv * 1000 - exact <= 500
                /\ exact - abv * 1000 <= 500
                /\ (og = 1063 /\ telemetry[k].gravity = 1010) => abv = 696

C5_Witness ==
    /\ Enriched /\ og = 1063
    /\ \E k \in 1..Len(telemetry) :
          telemetry[k].gravity = 1010 /\ data[i].telemetry[k].abv = 696

\* C6: with OG/1000 # 1.0 every enriched sample carries an attenuation equal to
\* ((OG/1000 - gravity/1000) / (OG/1000 - 1.0)) * 100 (held in hundredths of a percent,
\* to 0.01).
C6_Attenuation ==
    (Enriched /\ og # 1000) =>
        \A k \in 1..Len(telemetry) :
            LET sample == data[i].telemetry[k]
            IN  /\ "attenuation" \in DOMAIN sample
                /\ LET diff == sample.attenuation * (og - 1000)
                                   - (og - sample.gravity) * 10000
                   IN  diff <= og - 1000 /\ 0 - diff <= og - 1000

\* C7: with a resolved OG of exactly 1000 the enrichment of the device ends without
\* an exception and every sample of the device has attenuation 0.
C7_DegenerateOG ==
    (IterationDone /\ og = 1000) =>
        \A k \in 1..Len(telemetry) :
            LET sample == data[i].telemetry[k]
            IN  "attenuation" \in DOMAIN sample /\ sample.attenuation = 0

\* C8: the enriched telemetry has one sample per raw sample, in the order of the raw
\* telemetry, and each keeps the raw createdOn, gravity, temperature, battery and rssi.
C8_OnePerSample ==
    Enriched =>
        /\ Len(data[i].telemetry) = Len(telemetry)
        /\ \A k \in 1..Len(telemetry) :
              /\ {"createdOn", "gravity", "temperature", "battery", "rssi"}
                     \subseteq DOMAIN data[i].telemetry[k]
              /\ \A f \in DOMAIN telemetry[k] :
                    data[i].telemetry[k][f] = telemetry[k][f]

C8_Witness ==
    /\ Enriched
    /\ Len(telemetry) = 2
    /\ telemetry[2].createdOn < telemetry[1].createdOn
    /\ data[i].telemetry[1].createdOn = telemetry[1].createdOn
    /\ data[i].telemetry[1].temperature # data[i].telemetry[2].temperature

\* C10: a device whose telemetry fetch yields nothing stays in the list and carries
\* no sample (its telemetry is never assigned; so no abv and no attenuation), no OG is
\* resolved and no profile-session lookup is made for it, and the request goes on
\* without an exception: the answer holds the device, without samples.
C10_EmptyTelemetry ==
    /\ pc = "GetProfiles" => Len(telemetry) > 0
    /\ (IterationDone /\ telemetry = <<>>)
          => /\ i \in DOMAIN data
             /\ data[i].id = i
             /\ SamplesOf(data[i]) = <<>>
             /\ og = NoOG
             /\ session = NullSession
    /\ Answered => \A k \in DOMAIN response.body.items : response.body.items[k].id = k

C10_Witness ==
    /\ pc = "idle"
    /\ Answered
    /\ \E k \in DOMAIN response.body.items :
          /\ response.body.items[k].activeProfileSession # NoSessionId
          /\ SamplesOf(response.body.items[k]) = <<>>

\* the telemetry calls answered in the running iteration, in order
TelemetryCalls ==
    SelectSeq(calls, LAMBDA c : c.call \in {"GetTelemetry", "GetTelemetryAlt"})

WindowedFailed == [call |-> "GetTelemetry", ok |-> FALSE]
UnwindowedFailed == [call |-> "GetTelemetryAlt", ok |-> FALSE]

\* C11: the telemetry fetch of a device issues the windowed call first; the
\* unwindowed call is issued only after the windowed call failed, and it is issued
\* whenever the windowed call failed; when both failed the telemetry of the device is
\* the empty sequence and the request goes on to the next device without an error.
C11_TelemetryFallback ==
    /\ pc = "GetTelemetry" => TelemetryCalls = <<>>
    /\ pc = "GetTelemetryAlt" => TelemetryCalls = <<WindowedFailed>>
    /\ TelemetryCalls # <<>> =>
          /\ TelemetryCalls[1].call = "GetTelemetry"
          /\ Len(TelemetryCalls) <= 2
          /\ Len(TelemetryCalls) = 2 =>
                TelemetryCalls[1] = WindowedFailed /\ TelemetryCalls[2].call = "GetTelemetryAlt"
    /\ (TelemetryCalls # <<>> /\ TelemetryCalls[1] = WindowedFailed /\ pc # "GetTelemetryAlt")
          => Len(TelemetryCalls) = 2
    /\ (Len(TelemetryCalls) = 2 /\ TelemetryCalls[2] = UnwindowedFailed)
          => /\ pc = "Iterate"
             /\ response = NoResponse
             /\ telemetry = <<>>
             /\ SamplesOf(data[i]) = <<>>

C11_Witness ==
    /\ IterationDone
    /\ TelemetryCalls = <<WindowedFailed, UnwindowedFailed>>
    /\ telemetry = <<>>
    /\ response = NoResponse

\* the profile-session lookups answered in the running iteration
ProfileCalls == SelectSeq(calls, LAMBDA c : c.call = "GetProfiles")
ProfilesFailed == [call |-> "GetProfiles", ok |-> FALSE]

\* the lookup for the device was made and gave no session: the request failed or no
\* profile holds a session with the id
LookupFailed ==
    /\ Enriched /\ HasActiveSession(data[i])
    /\ ProfileCalls # <<>>
    /\ session = NullSession

\* C12 as stated: when the lookup failed the OG is the manual OG if one is configured,
\* otherwise the gravity of the earliest sample.
C12_AnyManualValue ==
    LookupFailed =>
        IF manualOriginalGravity # NoOG
        THEN og = manualOriginalGravity
        ELSE \E k \in Earliest(telemetry) : og = telemetry[k].gravity

\* C12, amended: when the profile-session lookup of a device fails (request error or
\* session not found) the request goes on without an error, the device is enriched,
\* and its OG is the manual OG if a non-zero one is configured, otherwise (none, or 0)
\* the gravity of the earliest sample (the first in input order among the earliest).
C12_LookupFailure ==
    /\ ProfilesFailed \in Range(calls) => pc = "Iterate" /\ response = NoResponse
    /\ LookupFailed =>
          /\ og = IF Truthy(manualOriginalGravity)
                  THEN manualOriginalGravity
                  ELSE sortedByDate(telemetry)[1].gravity
          /\ \E k \in Earliest(telemetry) :
                Truthy(manualOriginalGravity) \/ og = telemetry[k].gravity
          /\ data[i].telemetry \in Derive(telemetry, og)

C12_Witness ==
    /\ LookupFailed
    /\ ProfileCalls = <<ProfilesFailed>>
    /\ ~Truthy(manualOriginalGravity)
    /\ Len(telemetry) = 2
    /\ telemetry[2].createdOn < telemetry[1].createdOn
    /\ og = telemetry[2].gravity
    /\ og # telemetry[1].gravity

\* the device list was fetched and the request is in the device loop
Fetched ==
    \/ pc \in {"Iterate", "GetTelemetry", "GetTelemetryAlt", "GetProfiles"}
    \/ pc = "Authenticate" /\ ret # "GetHydrometers"

\* C13: once the device list was fetched, whatever telemetry and profile-session
\* calls fail, no step of the request answers with an error; the request ends with
\* status 200 and the list it was working on, which at every step holds the devices of
\* the fetched list (same length, same ids and sessions, in order); and a step changes
\* no device but the one of the running iteration, whose result is derived from the
\* answers to its own calls alone.
C13_PerDeviceFailures ==
    [][Fetched =>
        IF pc' = "idle"
        THEN response' = [statusCode |-> 200, body |-> ArrayBody(data)]
        ELSE /\ response' = NoResponse
             /\ Fetched'
             /\ data' # data =>
                   /\ Len(data') = Len(data)
                   /\ \A k \in DOMAIN data :
                         /\ data'[k].id = data[k].id
                         /\ data'[k].activeProfileSession = data[k].activeProfileSession
                         /\ k # i' => data'[k] = data[k]
             /\ (IterationDone' /\ pc # "Iterate") =>
                   IF telemetry' = <<>>
                   THEN SamplesOf(data'[i']) = <<>>
                   ELSE LET o == ResolveOG(session', telemetry')
                        IN  /\ Len(data'[i'].telemetry) = Len(telemetry')
                            /\ \A k \in DOMAIN telemetry' :
                                  \E up \in BOOLEAN :
                                      data'[i'].telemetry[k] = Enrich(telemetry'[k], o, up)
    ]_vars

\* the second device lost both telemetry calls and the first keeps its samples
C13_Witness ==
    /\ IterationDone
    /\ i = 2
    /\ TelemetryCalls = <<WindowedFailed, UnwindowedFailed>>
    /\ SamplesOf(data[2]) = <<>>
    /\ Len(SamplesOf(data[1])) = 2

HydrometersFailed == [call |-> "GetHydrometers", ok |-> FALSE]

\* C14: when the device-list fetch fails the request ends there and the handler
\* returns status 500 with a JSON object holding a non-empty error message and no
\* device list; and every way the handler ends is a response with a status (200, 405
\* or 500), never an exception leaving it.
C14_DeviceListFailure ==
    [][/\ (pc' = "idle" /\ (pc # "idle" \/ response' # response))
             => response'.statusCode \in {200, 405, 500}
       /\ (calls' # calls /\ calls' # <<>> /\ calls'[Len(calls')] = HydrometersFailed)
             => /\ pc' = "idle"
                /\ response'.statusCode = 500
                /\ response'.body.json = "object"
                /\ DOMAIN response'.body = {"json", "error"}
                /\ response'.body.error # ""
    ]_vars

\* the token was accepted and the device list failed all the same
C14_Witness ==
    /\ pc = "idle"
    /\ calls = <<[call |-> "Authenticate", ok |-> TRUE], HydrometersFailed>>
    /\ response = [statusCode |-> 500, body |-> [json |-> "object", error |-> "HTTP"]]

\* C15: once authenticate() failed in a request, that request does not authenticate
\* again and it ends as a failed request (status 500 and an error), never with a
\* device list.
C15_AuthFailure ==
    /\ pc = "Authenticate" => authFailures = 0
    /\ (pc = "idle" /\ authFailures > 0)
          => response.statusCode = 500 /\ response.body.json = "object"

\* C16: the response to a successful GET is a JSON object with a devices list, each
\* device of the fetched list in it, and a config holding the four thresholds.
C16_DevicesAndConfig ==
    (response.statusCode = 200 /\ response.body # EmptyBody)
        => /\ response.body.json = "object"
           /\ {"devices", "config"} \subseteq DOMAIN response.body
           /\ DOMAIN response.body.config
                  = {"tempDangerMin", "tempWarningMin", "tempWarningMax", "tempDangerMax"}

\* dangerMin <= warningMin <= warningMax <= dangerMax
Ordered(config) ==
    /\ config.tempDangerMin <= config.tempWarningMin
    /\ config.tempWarningMin <= config.tempWarningMax
    /\ config.tempWarningMax <= config.tempDangerMax

\* the severity the classification rule gives
Severity(temp, config, coldCrash) ==
    IF coldCrash /\ temp < config.tempDangerMin THEN "Good"
    ELSE IF temp < config.tempDangerMin \/ temp > config.tempDangerMax THEN "Danger"
    ELSE IF \/ (config.tempDangerMin <= temp /\ temp < config.tempWarningMin)
            \/ (config.tempWarningMax < temp /\ temp <= config.tempDangerMax)
         THEN "Warning"
    ELSE "Good"

\* the class that shows a severity
ClassOf(severity) ==
    CASE severity = "Danger" -> "info-card temp-danger"
      [] severity = "Warning" -> "info-card temp-warning"
      [] severity = "Good" -> "info-card temp-good"

\* C17: whenever the cards are rendered under thresholds with dangerMin <= warningMin
\* <= warningMax <= dangerMax, the temperature card of every device with readings has
\* the class of the severity of its latest reading: Good if cold-crash is active and
\* temperature < dangerMin; else Danger if temperature < dangerMin or > dangerMax; else
\* Warning if dangerMin <= temperature < warningMin or warningMax < temperature <=
\* dangerMax; else Good. With 18/20/26/28: 15 is Danger without cold-crash and Good
\* with it, 19 is Warning, 23 is Good, 29 is Danger also with cold-crash.
C17_Severity ==
    [][/\ (shown' # shown /\ Ordered(tempConfig')) =>
              \A k \in DOMAIN shown' :
                  shown'[k].latest # <<>> =>
                      shown'[k].tempClass
                          = ClassOf(Severity(shown'[k].latest[1].temperature, tempConfig',
                                             coldCrashMode'))
       /\ tempClass(15, DefaultConfig, FALSE) = ClassOf("Danger")
       /\ tempClass(15, DefaultConfig, TRUE) = ClassOf("Good")
       /\ tempClass(19, DefaultConfig, FALSE) = ClassOf("Warning")
       /\ tempClass(23, DefaultConfig, FALSE) = ClassOf("Good")
       /\ tempClass(29, DefaultConfig, TRUE) = ClassOf("Danger")
    ]_vars

\* every load has arrived; a reading of 15 degrees is shown as good in cold-crash mode
C17_Witness ==
    /\ loading = 0
    /\ coldCrashMode
    /\ tempConfig = DefaultConfig
    /\ Len(shown) = 1
    /\ shown[1].latest # <<>>
    /\ shown[1].latest[1].temperature = 15
    /\ shown[1].tempClass = "info-card temp-good"

\* C18: in every state of the dashboard the thresholds in effect satisfy dangerMin <=
\* warningMin <= warningMax <= dangerMax.
C18_Ordered == Ordered(tempConfig)

Reclassified(cards, config, coldCrash) ==
    [k \in DOMAIN cards |->
        IF cards[k].latest = <<>> THEN cards[k]
        ELSE [cards[k] EXCEPT
                 !.tempClass = tempClass(cards[k].latest[1].temperature, config, coldCrash),
                 !.tempWarning = tempWarning(cards[k].latest[1], config, coldCrash)]]

ConfigChanges == tempConfig' # tempConfig \/ coldCrashMode' # coldCrashMode

\* the thresholds the dashboard comes to hold: the defaults and the saved forms
Configs == {DefaultConfig} \cup {ParseForm(form) : form \in Typed}

\* for thresholds and a cold-crash flag, the cards of every answer a load can get
Renderings ==
    [config \in Configs |->
        [coldCrash \in BOOLEAN |->
            {displayDevices(FetchedDevices(r), config, coldCrash) : r \in FetchResponses}]]

\* C20 as stated: once devices are shown, a step that changes the thresholds or the
\* cold-crash flag starts no fetch of device data, and the cards shown are classified
\* anew from the telemetry already loaded.
C20_NoNewFetch ==
    [][(shown # <<>> /\ ConfigChanges) =>
          /\ loading' <= loading
          /\ shown' = Reclassified(shown, tempConfig', coldCrashMode')
    ]_vars

\* C20, amended: a step that changes the thresholds (saving the settings) or the
\* cold-crash flag starts one new load of device data (one more fetch in flight, the
\* refresh button disabled) and leaves the device cards as they are; the cards change
\* only when a load arrives (or the page is loaded), and are then rendered from the
\* devices of that answer under the thresholds and the flag in effect.
C20_ReloadOnChange ==
    [][/\ ConfigChanges =>
              /\ loading' = loading + 1
              /\ refreshDisabled'
              /\ shown' = shown
       /\ shown' # shown =>
              /\ loading' = loading - 1 \/ shown' = <<>>
              /\ tempConfig' \in Configs
              /\ shown' \in Renderings[tempConfig'][coldCrashMode']
    ]_vars

\* cold-crash mode was switched on and its load is in flight: the reading of 15
\* degrees is still shown as a danger
C20_Witness ==
    /\ coldCrashMode
    /\ tempConfig = DefaultConfig
    /\ loading = 1
    /\ Len(shown) = 1
    /\ shown[1].latest # <<>>
    /\ shown[1].latest[1].temperature = 15
    /\ shown[1].tempClass = "info-card temp-danger"

C22_LowBattery ==
    [][shown' # shown =>
          \A k \in DOMAIN shown' :
              shown'[k].lowBattery
                  <=> (shown'[k].latest # <<>> /\ shown'[k].latest[1].battery < 20)
    ]_vars

\* a reading of 23 degrees, good under the defaults, at 19 percent: the low-battery
\* alert is shown and no temperature alert
C22_Witness ==
    /\ loading = 0
    /\ tempConfig = DefaultConfig
    /\ Len(shown) = 1
    /\ shown[1].latest # <<>>
    /\ shown[1].latest[1].temperature = 23
    /\ shown[1].latest[1].battery = 19
    /\ shown[1].lowBattery
    /\ shown[1].tempWarning = NoWarning

\* the calls to the Telemetry Source: device list, windowed telemetry, unwindowed
\* telemetry, profile sessions
SourceCalls == {"GetHydrometers", "GetTelemetry", "GetTelemetryAlt", "GetProfiles"}

\* a step that issues a call to the Telemetry Source
Issues == pc' \in SourceCalls /\ pc' # pc

\* C23: in every step that issues a call to the Telemetry Source (device list,
\* windowed telemetry, unwindowed telemetry, profile sessions) the cached token is
\* present and not expired at that moment: no call is sent with an absent or an
\* expired token.
C23_TokenBeforeCall == [][Issues => isTokenValid']_vars

\* C24: when the cached token has expired and two interleaved requests find it so, at
\* most one authenticate call is in flight: the two requests are never both inside
\* authenticate, so the token and its expiry are not written by overlapping refreshes.
C24_SingleRefresh ==
    (accessToken # NoToken /\ now >= tokenExpiry)
        => ~(pc = "Authenticate" /\ pc2 = "Authenticate")

\* C25: in the pass over a device the OG is resolved once: og gets its value in one
\* step, which comes after the telemetry of the device was fetched (the step leaves a
\* telemetry or profile-session call with non-empty telemetry) and before any sample
\* of the device carries an abv; in that step every sample is derived from its raw
\* sample with that one OG, and og keeps the value until the locals of the pass go.
\* A pass that ends with telemetry has resolved the OG in its last step.
C25_ResolvedOnce ==
    [][/\ og' # og =>
            \/ og' = NoOG /\ pc \in {"Iterate", "idle"}
            \/ /\ og = NoOG
               /\ pc \in {"GetTelemetry", "GetTelemetryAlt", "GetProfiles"}
               /\ pc' = "Iterate"
               /\ i' = i
               /\ HasTelemetry(telemetry')
               /\ \A k \in DOMAIN SamplesOf(data[i]) :
                     "abv" \notin DOMAIN data[i].telemetry[k]
               /\ Len(data'[i].telemetry) = Len(telemetry')
               /\ \A k \in DOMAIN telemetry' :
                     \E up \in BOOLEAN :
                         data'[i].telemetry[k] = Enrich(telemetry'[k], og', up)
       /\ (pc' = "Iterate" /\ pc # "Iterate" /\ HasTelemetry(telemetry')) =>
            og = NoOG /\ og' # NoOG
    ]_vars

\* two samples of different gravity, both derived with the manual OG 1.126
C25_Witness ==
    /\ Enriched
    /\ og = 1126
    /\ Len(telemetry) = 2
    /\ telemetry[1].gravity = 1063
    /\ telemetry[2].gravity = 1010
    /\ data[i].telemetry[1].abv = Abv(1126, 1063, FALSE)
    /\ data[i].telemetry[2].abv \in {Abv(1126, 1010, FALSE), Abv(1126, 1010, TRUE)}

\* C26: in every state in which a load is in flight the refresh button is disabled.
C26_DisabledWhileLoading == loading > 0 => refreshDisabled

\* C27: once every load has completed, the cards shown are those of the load that was
\* started last.
C27_LastStartedShown == loading = 0 => shownLatest

\* the severity a colour of the temperature dataset stands for in a theme
ColourSeverity(colour, monochrome, dark) ==
    CASE ~monochrome /\ colour = "rgb(239, 68, 68)" -> "Danger"
      [] ~monochrome /\ colour = "rgb(249, 115, 22)" -> "Warning"
      [] ~monochrome /\ colour = "rgb(34, 197, 94)" -> "Good"
      [] monochrome /\ colour = (IF dark THEN "rgb(212, 212, 212)" ELSE "rgb(82, 82, 82)")
            -> "Danger"
      [] monochrome /\ colour = (IF dark THEN "rgb(163, 163, 163)" ELSE "rgb(115, 115, 115)")
            -> "Warning"
      [] monochrome /\ colour = (IF dark THEN "rgb(115, 115, 115)" ELSE "rgb(64, 64, 64)")
            -> "Good"
      [] OTHER -> "None"

\* the severity a class of the temperature card stands for
ClassSeverity(class) ==
    CASE class = "info-card temp-danger" -> "Danger"
      [] class = "info-card temp-warning" -> "Warning"
      [] class = "info-card temp-good" -> "Good"
      [] OTHER -> "None"

\* C28: whenever the charts are drawn, every point of every chart has the colour of
\* the severity (danger, warning or good) that the temperature card gives to a latest
\* reading of the temperature of the point under the thresholds and the cold-crash
\* flag in effect; and under those thresholds and that theme the two agree for every
\* temperature and either cold-crash value.
C28_ChartAsCard ==
    [][charts' # charts =>
          /\ \A k \in DOMAIN charts' :
                \A j \in DOMAIN charts'[k] :
                    /\ ColourSeverity(charts'[k][j].colour, monochromeMode', darkMode')
                          = ClassSeverity(tempClass(charts'[k][j].temperature, tempConfig',
                                                    coldCrashMode'))
                    /\ ClassSeverity(tempClass(charts'[k][j].temperature, tempConfig',
                                               coldCrashMode')) # "None"
          /\ \A temp \in Temperatures :
                \A coldCrash \in BOOLEAN :
                    ColourSeverity(tempColors(temp, tempConfig', coldCrash, monochromeMode',
                                              darkMode'), monochromeMode', darkMode')
                        = ClassSeverity(tempClass(temp, tempConfig', coldCrash))
    ]_vars

\* cold-crash mode with limits out of order (dangerMin 30 above dangerMax 28): the
\* point of a reading of 27 degrees is drawn in the warning grey of the dark
\* monochrome theme, and its card is a warning
C28_Witness ==
    /\ loading = 0
    /\ coldCrashMode /\ monochromeMode /\ darkMode
    /\ tempConfig = Form(30, 20, 26, 28)
    /\ Len(shown) = 1
    /\ shown[1].latest # <<>>
    /\ shown[1].latest[1].temperature = 27
    /\ shown[1].tempClass = "info-card temp-warning"
    /\ charts = <<(<<[temperature |-> 27, colour |-> "rgb(163, 163, 163)"]>>)>>

\* C29: a step that saves the settings form stores each of the four fields as it was
\* entered when it holds a number, and the default of the field (18, 20, 26, 28) only
\* when it holds none; the thresholds in effect are then the stored ones, and
\* loadTempConfig returns them.
C29_SaveStores ==
    [][(modalActive /\ ~modalActive' /\ loading' > loading) =>
          /\ \A f \in ConfigFields :
                tempConfig'[f] = IF inputs[f] = NaN THEN DefaultConfig[f] ELSE inputs[f]
          /\ localStorage'.tempConfig = <<tempConfig'>>
          /\ loadTempConfig(localStorage') = tempConfig'
    ]_vars

\* C30: the token is cached across calls. A step enters authenticate only when no
\* token is cached or the expiry of the cached one has passed; a call made while the
\* token is valid is issued at once with the cached token; the token and its expiry
\* are written only by an authenticate that succeeds, which caches a token with expiry
\* now + expires_in, valid from then on while now < expiry; an authenticate that fails
\* leaves the token and the expiry as they were.
C30_TokenCache ==
    [][/\ (pc' = "Authenticate" /\ pc # "Authenticate") =>
              (accessToken = NoToken \/ now >= tokenExpiry)
       /\ (pc \in {"idle", "Iterate"} /\ pc' \notin {"idle", "Iterate"} /\ isTokenValid) =>
              (pc' \in SourceCalls /\ Token' = Token)
       /\ Token' # Token =>
              /\ pc = "Authenticate"
              /\ authFailures' = authFailures
              /\ accessToken' # NoToken
              /\ \E expires_in \in ExpiresIn : tokenExpiry' = now + expires_in
              /\ isTokenValid'
       /\ (pc = "Authenticate" /\ authFailures' = authFailures + 1) => Token' = Token
       /\ (accessToken # NoToken /\ tokenExpiry # NoExpiry) =>
              (isTokenValid <=> now < tokenExpiry)
    ]_vars

\* the cached token has expired, the refresh failed, and the expired token is still
\* in the cache when the call is issued
C30_Witness ==
    /\ accessToken # NoToken
    /\ now >= tokenExpiry
    /\ authFailures = 1
    /\ pc \in SourceCalls

====
